---- MODULE Spec2Model ----
(***************************************************************************)
(* Model of the MTG price checker: the store adapter (MTGStore), the two   *)
(* result reducers and check_card_prices of scripts/mtg_price_checker.py,  *)
(* and the batch handlers of api/check-prices.py (entry "api") and         *)
(* scripts/local_backend_server.py (entry "local"), and the lazily built   *)
(* price checker the request threads of the local server share.            *)
(*                                                                         *)
(* JSON / Python values are tagged records [t, n] so that the 'n/a'        *)
(* sentinel, a vendor-reported number, a vendor-reported non-numeric       *)
(* string and an absent dictionary key stay distinct.  Prices are whole    *)
(* numbers of cents.                                                       *)
(***************************************************************************)
EXTENDS Integers, Sequences, FiniteSets, TLC

VARIABLES
    entry,                \* which server entry point handles the request
    card_text,            \* request field 'cards', as its sequence of lines
    selected_stores,      \* request field 'stores'
    pc,                   \* position of the request handler
    card_names,           \* parsed card names
    idx,                  \* index of the next card of the for loop
    results,              \* the results list
    store_stats,          \* store_stats dictionary
    overall_lowest_total, \* running sum of lowest prices
    calls,                \* network calls issued so far, in order
    cardlog,              \* per processed card: how its try block ended
    response,             \* the response sent
    op,                   \* checker-level call being observed
    arg,                  \* its arguments
    ret,                  \* its return value
    server_price_checker, \* attribute price_checker of the HTTP server object
    builds,               \* how many times build_price_checker has run
    thread                \* per request thread of the local server: its position

vars == <<entry, card_text, selected_stores, pc, card_names, idx, results,
          store_stats, overall_lowest_total, calls, cardlog, response,
          op, arg, ret, server_price_checker, builds, thread>>

batchVars == <<entry, card_text, selected_stores, pc, card_names, idx, results,
               store_stats, overall_lowest_total, calls, cardlog, response>>

callVars == <<op, arg, ret>>

serverVars == <<server_price_checker, builds, thread>>

-----------------------------------------------------------------------------
(* Bounds *)

MaxSkus == 2

MaxLines == 2

MaxThreads == 2

-----------------------------------------------------------------------------
(* Values *)

Num(n) == [t |-> "num", n |-> n]

NA == [t |-> "n/a", n |-> 0]

StrPrice == [t |-> "str", n |-> 0]

Absent == [t |-> "absent", n |-> 0]

IsNumber(v) == v.t = "num"

DictGet(v, default) == IF v = Absent THEN default ELSE v

-----------------------------------------------------------------------------
(* Configuration: two stores, one of each type *)

StoreType == [a |-> "tcgplayer_pro", b |-> "conductcommerce"]

StoreKeys == DOMAIN StoreType

\* self.stores keeps the keys in the order of the configuration file
StoreOrder == <<"a", "b">>

UnknownKeys == {"x", "y"}

-----------------------------------------------------------------------------
(* Sequence helpers *)

RECURSIVE SeqsUpTo(_, _)
SeqsUpTo(S, n) ==
    IF n = 0 THEN {<<>>}
    ELSE LET shorter == SeqsUpTo(S, n - 1)
         IN shorter \cup {Append(s, x) : s \in {q \in shorter : Len(q) = n - 1}, x \in S}

RECURSIVE SumQuantity(_)
SumQuantity(pairs) ==
    IF pairs = <<>> THEN 0 ELSE Head(pairs).quantity.n + SumQuantity(Tail(pairs))

Range(s) == {s[i] : i \in 1..Len(s)}

-----------------------------------------------------------------------------
(* Results of checker-level calls *)

NotAvailable == [raised |-> FALSE, exc |-> "", availability |-> "n/a",
                 price |-> NA, quantity |-> 0]

Available(price, quantity) ==
    [raised |-> FALSE, exc |-> "", availability |-> "Available",
     price |-> price, quantity |-> quantity]

Raise(exc) == [raised |-> TRUE, exc |-> exc, availability |-> "n/a",
               price |-> NA, quantity |-> 0]

-----------------------------------------------------------------------------
(* The reducers *)

\* faulty variant: the filter written as quantity != 0
Included_nonzero(sku) == DictGet(sku.quantity, Num(0)).n # 0

\* quantity > 0 on a dictionary entry, with .get('quantity', 0)
Included(sku) == DictGet(sku.quantity, Num(0)).n > 0

Pair(sku) == [price |-> DictGet(sku.price, Num(0)),
              quantity |-> DictGet(sku.quantity, Num(0))]

RECURSIVE CollectPairs(_)
CollectPairs(skus) ==
    IF skus = <<>> THEN <<>>
    ELSE IF Included(Head(skus))
         THEN <<Pair(Head(skus))>> \o CollectPairs(Tail(skus))
         ELSE CollectPairs(Tail(skus))

\* x['price'] < y['price'] as list.sort evaluates it on same-typed keys
PriceLess(p, q) == IsNumber(p) /\ IsNumber(q) /\ p.n < q.n

\* list.sort raises TypeError when it has to compare a str with a number
SortRaises(pairs) ==
    \E i, j \in 1..Len(pairs) : pairs[i].price.t # pairs[j].price.t

RECURSIVE Insert(_, _)
Insert(sorted, x) ==
    IF sorted = <<>> THEN <<x>>
    ELSE IF PriceLess(x.price, Head(sorted).price)
         THEN <<x>> \o sorted
         ELSE <<Head(sorted)>> \o Insert(Tail(sorted), x)

RECURSIVE SortByPrice(_)
SortByPrice(pairs) ==
    IF pairs = <<>> THEN <<>>
    ELSE Insert(SortByPrice(SubSeq(pairs, 1, Len(pairs) - 1)), pairs[Len(pairs)])

\* faulty variant: the price of the first collected pair, the sort left out
Consolidate_unsorted(pairs) ==
    IF pairs # <<>>
    THEN IF SortRaises(pairs) THEN Raise("TypeError")
         ELSE Available(pairs[1].price, SumQuantity(pairs))
    ELSE NotAvailable

Consolidate(pairs) ==
    IF pairs # <<>>
    THEN IF SortRaises(pairs) THEN Raise("TypeError")
         ELSE Available(SortByPrice(pairs)[1].price, SumQuantity(pairs))
    ELSE NotAvailable

RECURSIVE ProductIds(_)
ProductIds(products) ==
    IF products = <<>> THEN <<>>
    ELSE <<Head(products).id>> \o ProductIds(Tail(products))

RECURSIVE MatchedSkus(_, _)
MatchedSkus(product_map, inventory_data) ==
    IF inventory_data = <<>> THEN <<>>
    ELSE IF Head(inventory_data).productId \in product_map
         THEN Head(inventory_data).skus \o MatchedSkus(product_map, Tail(inventory_data))
         ELSE MatchedSkus(product_map, Tail(inventory_data))

process_tcgplayer_results(products, inventory_data) ==
    IF \E i \in 1..Len(products) : products[i].id = Absent
    THEN Raise("KeyError")
    ELSE Consolidate(CollectPairs(MatchedSkus(Range(ProductIds(products)), inventory_data)))

RECURSIVE AllVariants(_)
AllVariants(listings) ==
    IF listings = <<>> THEN <<>>
    ELSE Head(listings).variants \o AllVariants(Tail(listings))

process_conductcommerce_results(listings) ==
    Consolidate(CollectPairs(AllVariants(listings)))

-----------------------------------------------------------------------------
(* The store adapter.  An upstream response is [kind, items]: kind names   *)
(* what the HTTP exchange produced, items the array the body carries under *)
(* products.items / result.listings (search) or as the body (inventory).   *)

Returned(value) == [raised |-> FALSE, exc |-> "", value |-> value]

Raised(exc) == [raised |-> TRUE, exc |-> exc, value |-> <<>>]

SwallowedKinds == {"transport_error", "http_error", "not_json"}

\* faulty variant: no except clause around the request
search_cards_unguarded(store_type, resp) ==
    IF resp.kind \in SwallowedKinds THEN Raised("RequestException")
    ELSE IF resp.kind \in {"non_object", "null_field"} THEN Raised("AttributeError")
    ELSE IF store_type \in {"tcgplayer_pro", "conductcommerce"} THEN Returned(resp.items)
    ELSE Returned(<<>>)

search_cards(store_type, resp) ==
    IF resp.kind \in SwallowedKinds THEN Returned(<<>>)
    ELSE IF resp.kind \in {"non_object", "null_field"} THEN Raised("AttributeError")
    ELSE IF store_type \in {"tcgplayer_pro", "conductcommerce"} THEN Returned(resp.items)
    ELSE Returned(<<>>)

get_inventory(product_ids, resp) ==
    IF product_ids = <<>> THEN <<>>
    ELSE IF resp.kind \in SwallowedKinds THEN <<>>
    ELSE IF resp.kind = "ok" THEN resp.items
    ELSE <<>>

-----------------------------------------------------------------------------
(* check_card_prices: the result together with the network calls it made   *)

Call(fn, store_key, card_name) == [fn |-> fn, store |-> store_key, card |-> card_name]

WithCalls(r, cs) ==
    [raised |-> r.raised, exc |-> r.exc, availability |-> r.availability,
     price |-> r.price, quantity |-> r.quantity, calls |-> cs]

\* step 2 and 3 of the tcgplayer_pro branch, once get_inventory has returned
AfterInventory(card_name, store_key, products, inventory_data) ==
    IF inventory_data = <<>>
    THEN WithCalls(NotAvailable, <<Call("search", store_key, card_name),
                                   Call("inventory", store_key, card_name)>>)
    ELSE WithCalls(process_tcgplayer_results(products, inventory_data),
                   <<Call("search", store_key, card_name),
                     Call("inventory", store_key, card_name)>>)

\* check_card_prices once search_cards has returned or raised
AfterSearch(card_name, store_key, found, inventory_response) ==
    IF found.raised
    THEN WithCalls(Raise(found.exc), <<Call("search", store_key, card_name)>>)
    ELSE IF found.value = <<>>
    THEN WithCalls(NotAvailable, <<Call("search", store_key, card_name)>>)
    ELSE IF StoreType[store_key] = "conductcommerce"
    THEN WithCalls(process_conductcommerce_results(found.value),
                   <<Call("search", store_key, card_name)>>)
    ELSE IF \E i \in 1..Len(found.value) : found.value[i].id = Absent
    THEN WithCalls(Raise("KeyError"), <<Call("search", store_key, card_name)>>)
    ELSE AfterInventory(card_name, store_key, found.value,
                        get_inventory(ProductIds(found.value), inventory_response))

\* faulty variant: a store key that is not configured is searched all the same
check_card_prices_searchesUnknown(card_name, store_key, upstream) ==
    IF store_key \notin StoreKeys
    THEN WithCalls(NotAvailable, <<Call("search", store_key, card_name)>>)
    ELSE AfterSearch(card_name, store_key,
                     search_cards(StoreType[store_key], upstream.search),
                     upstream.inventory)

check_card_prices(card_name, store_key, upstream) ==
    IF store_key \notin StoreKeys THEN WithCalls(NotAvailable, <<>>)
    ELSE AfterSearch(card_name, store_key,
                     search_cards(StoreType[store_key], upstream.search),
                     upstream.inventory)

-----------------------------------------------------------------------------
(* Inputs of the checker-level calls *)

Prices == {Absent, Num(1), Num(2), StrPrice}

Quantities == {Absent, Num(-1), Num(0), Num(1), Num(2)}

Skus == [price : Prices, quantity : Quantities]

SkuSeqs == SeqsUpTo(Skus, MaxSkus)

Listing(variants) == [variants |-> variants]

\* the variants of a search spread over two listings
ListingsOf(flat, cut) ==
    <<Listing(SubSeq(flat, 1, cut)), Listing(SubSeq(flat, cut + 1, Len(flat)))>>

Product(id) == [id |-> id]

ProductSeqs == {<<Product(Num(1))>>, <<Product(Num(1)), Product(Num(2))>>}

ProductIdValues == {Absent, Num(1), Num(2)}

InventoryItem(product_id, skus) == [productId |-> product_id, skus |-> skus]

\* the SKUs of an inventory response spread over two entries
InventoryOf(flat, cut, id1, id2) ==
    <<InventoryItem(id1, SubSeq(flat, 1, cut)),
      InventoryItem(id2, SubSeq(flat, cut + 1, Len(flat)))>>

FailedResponses == {[kind |-> k, items |-> <<>>] : k \in SwallowedKinds}

MalformedResponses == {[kind |-> k, items |-> <<>>] : k \in {"non_object", "null_field"}}

Ok(items) == [kind |-> "ok", items |-> items]

NonList == [kind |-> "non_list", items |-> <<>>]

SingleSkuInventories ==
    {<<InventoryItem(id, <<sku>>)>> : id \in ProductIdValues, sku \in Skus}

SearchOutcomes(store_key) ==
    FailedResponses \cup MalformedResponses \cup {Ok(<<>>)}
      \cup (IF store_key \notin StoreKeys THEN {}
            ELSE IF StoreType[store_key] = "conductcommerce"
                 THEN {Ok(<<Listing(<<sku>>)>>) : sku \in Skus}
                 ELSE {Ok(p) : p \in ProductSeqs \cup {<<Product(Absent)>>}})

\* what the inventory endpoint would answer, whether or not the store is asked
InventoryOutcomes(store_key) ==
    IF store_key \in StoreKeys /\ StoreType[store_key] = "tcgplayer_pro"
    THEN FailedResponses \cup {NonList, Ok(<<>>)} \cup {Ok(i) : i \in SingleSkuInventories}
    ELSE {[kind |-> "transport_error", items |-> <<>>], Ok(<<>>),
          Ok(<<InventoryItem(Num(1), <<[price |-> Num(1), quantity |-> Num(2)]>>)>>)}

Upstreams(store_key) ==
    [search : SearchOutcomes(store_key), inventory : InventoryOutcomes(store_key)]

CardNames == {"c1", "c2"}

-----------------------------------------------------------------------------
(* Checker-level calls observed one at a time: op names the call, arg its   *)
(* arguments and ret what it returned.                                      *)

NoArgs == [card_name |-> "", store_key |-> "", upstream |-> <<>>,
           products |-> <<>>, inventory_data |-> <<>>, listings |-> <<>>]

BatchIdle ==
    /\ entry = "none"
    /\ card_text = <<>>
    /\ selected_stores = <<>>
    /\ pc = "idle"
    /\ card_names = <<>>
    /\ idx = 0
    /\ results = <<>>
    /\ store_stats = <<>>
    /\ overall_lowest_total = 0
    /\ calls = <<>>
    /\ cardlog = <<>>
    /\ response = <<>>

CallIdle ==
    /\ op = "idle"
    /\ arg = NoArgs
    /\ ret = WithCalls(NotAvailable, <<>>)

\* the local server right after ThreadingHTTPServer(...) was constructed: no
\* price_checker attribute yet, no request thread started
Threads == 1..MaxThreads

NoChecker == 0

ThreadIdle == [pc |-> "idle", left |-> 0, fresh |-> NoChecker, used |-> {}]

ServerIdle ==
    /\ server_price_checker = NoChecker
    /\ builds = 0
    /\ thread = [t \in Threads |-> ThreadIdle]

InitCalls == BatchIdle /\ CallIdle /\ ServerIdle

CallProcessTcgplayer ==
    /\ op = "idle"
    /\ \E flat \in SkuSeqs, products \in ProductSeqs, id1, id2 \in ProductIdValues :
         \E cut \in 0..Len(flat) :
           LET inventory_data == InventoryOf(flat, cut, id1, id2)
           IN /\ arg' = [NoArgs EXCEPT !.products = products,
                                       !.inventory_data = inventory_data]
              /\ ret' = WithCalls(process_tcgplayer_results(products, inventory_data), <<>>)
    /\ op' = "process_tcgplayer_results"
    /\ UNCHANGED batchVars
    /\ UNCHANGED serverVars

CallProcessConductcommerce ==
    /\ op = "idle"
    /\ \E flat \in SkuSeqs :
         \E cut \in 0..Len(flat) :
           LET listings == ListingsOf(flat, cut)
           IN /\ arg' = [NoArgs EXCEPT !.listings = listings]
              /\ ret' = WithCalls(process_conductcommerce_results(listings), <<>>)
    /\ op' = "process_conductcommerce_results"
    /\ UNCHANGED batchVars
    /\ UNCHANGED serverVars

CallCheckCardPrices ==
    /\ op = "idle"
    /\ \E card_name \in CardNames, store_key \in StoreKeys \cup UnknownKeys :
         \E upstream \in Upstreams(store_key) :
           /\ arg' = [NoArgs EXCEPT !.card_name = card_name, !.store_key = store_key,
                                    !.upstream = upstream]
           /\ ret' = check_card_prices(card_name, store_key, upstream)
    /\ op' = "check_card_prices"
    /\ UNCHANGED batchVars
    /\ UNCHANGED serverVars

Return ==
    /\ op # "idle"
    /\ op' = "idle"
    /\ arg' = NoArgs
    /\ ret' = WithCalls(NotAvailable, <<>>)
    /\ UNCHANGED batchVars
    /\ UNCHANGED serverVars

NextCalls ==
    \/ CallProcessTcgplayer
    \/ CallProcessConductcommerce
    \/ CallCheckCardPrices
    \/ Return

SpecCalls == InitCalls /\ [][NextCalls]_vars

-----------------------------------------------------------------------------
(* The batch request handlers.  e is the entry point: "api" for            *)
(* api/check-prices.py, "local" for scripts/local_backend_server.py.       *)

Entries == {"api", "local"}

Lines == {" ", "c1", " c2 "}

\* str.strip() on the lines a request can carry
Strip(line) == CASE line = " " -> ""
                 [] line = " c2 " -> "c2"
                 [] OTHER -> line

RECURSIVE ParseCardNames(_)
ParseCardNames(text) ==
    IF text = <<>> THEN <<>>
    ELSE IF Strip(Head(text)) # ""
         THEN <<Strip(Head(text))>> \o ParseCardNames(Tail(text))
         ELSE ParseCardNames(Tail(text))

\* card_text.strip() is empty: no line holds anything but white space
CardTextBlank(text) == \A i \in 1..Len(text) : Strip(text[i]) = ""

Selections ==
    {<<>>, <<"a">>, <<"b">>, <<"a", "b">>, <<"b", "a">>, <<"a", "a">>,
     <<"x">>, <<"a", "x">>, <<"x", "b">>, <<"y", "x">>}

NoErrorKey == "<no error key>"

NoResponse ==
    [status |-> 0, success |-> FALSE, error |-> "", keys |-> {},
     results |-> <<>>, summary |-> <<>>, selected_stores |-> <<>>]

ErrorResponse(status, message, keys) ==
    [NoResponse EXCEPT !.status = status, !.error = message, !.keys = keys]

Accepted == [NoResponse EXCEPT !.status = 200]

\* faulty variant: the selected stores are not checked against the configured ones
Validate_noUnknownCheck(text, stores) ==
    IF CardTextBlank(text) THEN ErrorResponse(400, "No cards provided", {})
    ELSE IF ParseCardNames(text) = <<>>
         THEN ErrorResponse(400, "No valid card names found", {})
    ELSE IF stores = <<>> THEN ErrorResponse(400, "No stores selected", {})
    ELSE Accepted

\* faulty variant: the stores are validated before the card text
Validate_storesFirst(text, stores) ==
    IF stores = <<>> THEN ErrorResponse(400, "No stores selected", {})
    ELSE IF Range(stores) \ StoreKeys # {}
         THEN ErrorResponse(400, "Invalid stores", Range(stores) \ StoreKeys)
    ELSE IF CardTextBlank(text) THEN ErrorResponse(400, "No cards provided", {})
    ELSE IF ParseCardNames(text) = <<>>
         THEN ErrorResponse(400, "No valid card names found", {})
    ELSE Accepted

\* the validation of the request: the error response it ends in, or Accepted
Validate(text, stores) ==
    IF CardTextBlank(text) THEN ErrorResponse(400, "No cards provided", {})
    ELSE IF ParseCardNames(text) = <<>>
         THEN ErrorResponse(400, "No valid card names found", {})
    ELSE IF stores = <<>> THEN ErrorResponse(400, "No stores selected", {})
    ELSE IF Range(stores) \ StoreKeys # {}
         THEN ErrorResponse(400, "Invalid stores", Range(stores) \ StoreKeys)
    ELSE Accepted

EmptyDict == [k \in {} |-> NA]

Put(d, k, v) == [x \in DOMAIN d \cup {k} |-> IF x = k THEN v ELSE d[x]]

Get(d, k, default) == IF k \in DOMAIN d THEN d[k] ELSE default

NewRecord(card_name) ==
    [card_name |-> card_name, price |-> EmptyDict, availability |-> EmptyDict,
     lowest_price |-> Absent, lowest_price_store |-> "", error |-> NoErrorKey]

\* store_prices keeps its keys in insertion order
SetPrice(store_prices, store_key, price) ==
    IF \E i \in 1..Len(store_prices) : store_prices[i].key = store_key
    THEN [i \in 1..Len(store_prices) |->
            IF store_prices[i].key = store_key
            THEN [key |-> store_key, price |-> price] ELSE store_prices[i]]
    ELSE Append(store_prices, [key |-> store_key, price |-> price])

\* min(store_prices.keys(), key=...): the first key holding the least price
MinStore(store_prices) ==
    store_prices[CHOOSE i \in 1..Len(store_prices) :
        /\ \A j \in 1..Len(store_prices) : store_prices[i].price.n <= store_prices[j].price.n
        /\ \A j \in 1..(i - 1) : store_prices[j].price.n > store_prices[i].price.n]

WithLowest(record, store_prices) ==
    IF store_prices # <<>>
    THEN [record EXCEPT !.lowest_price = MinStore(store_prices).price,
                        !.lowest_price_store = MinStore(store_prices).key]
    ELSE [record EXCEPT !.lowest_price = NA, !.lowest_price_store = "n/a"]

\* faulty variant: the loop over the unselected stores left out
FillUnselected_none(record, stores, todo) == record

RECURSIVE FillUnselected(_, _, _)
FillUnselected(record, stores, todo) ==
    IF todo = {} THEN record
    ELSE LET k == CHOOSE x \in todo : TRUE
             next == IF k \in Range(stores) THEN record
                     ELSE [record EXCEPT !.price = Put(@, k, NA),
                                         !.availability = Put(@, k, "n/a")]
         IN FillUnselected(next, stores, todo \ {k})

\* outcome of building one card's record: the record, or the exception raised,
\* with the network calls made on the way
Built(record, cs, answers) ==
    [raised |-> FALSE, exc |-> "", record |-> record, calls |-> cs, answers |-> answers]

Failed(exc, cs, answers) ==
    [raised |-> TRUE, exc |-> exc, record |-> NewRecord(""), calls |-> cs,
     answers |-> answers]

\* what one check_card_prices call answered, kept per card in cardlog
Answer(store_key, r) ==
    [store |-> store_key, raised |-> r.raised, availability |-> r.availability,
     price |-> r.price]

\* whether the single-store path takes the price as the lowest price
SinglePriceCounts(e, price) ==
    IF e = "api" THEN price # NA ELSE IsNumber(price)

\* the single-store record built from the result r of check_card_prices
SingleRecord(e, card_name, store_key, r) ==
    IF r.raised THEN Failed(r.exc, r.calls, <<Answer(store_key, r)>>)
    ELSE Built(
           [NewRecord(card_name) EXCEPT
              !.price = [s \in StoreKeys |-> IF s = store_key THEN r.price ELSE NA],
              !.availability = [s \in StoreKeys |->
                                  IF s = store_key THEN r.availability ELSE "n/a"],
              !.lowest_price = IF SinglePriceCounts(e, r.price) THEN r.price ELSE NA,
              !.lowest_price_store = IF SinglePriceCounts(e, r.price)
                                     THEN store_key ELSE "n/a"],
           r.calls, <<Answer(store_key, r)>>)

SingleStore(e, card_name, store_key, upstream) ==
    SingleRecord(e, card_name, store_key,
                 check_card_prices(card_name, store_key, upstream))

\* one pass of the loop over the selected stores, given the result r of the query
Merge(acc, store_key, r) ==
    IF r.raised
    THEN [acc EXCEPT !.raised = TRUE, !.exc = r.exc, !.calls = @ \o r.calls,
                     !.answers = Append(@, Answer(store_key, r))]
    ELSE [acc EXCEPT !.record.price = Put(@, store_key, r.price),
                     !.record.availability = Put(@, store_key, r.availability),
                     !.store_prices = IF IsNumber(r.price)
                                      THEN SetPrice(@, store_key, r.price) ELSE @,
                     !.calls = @ \o r.calls,
                     !.answers = Append(@, Answer(store_key, r))]

RECURSIVE QueryStores(_, _, _, _)
QueryStores(acc, card_name, stores, upstreams) ==
    IF stores = <<>> \/ acc.raised THEN acc
    ELSE QueryStores(
           Merge(acc, Head(stores),
                 check_card_prices(card_name, Head(stores), Head(upstreams))),
           card_name, Tail(stores), Tail(upstreams))

\* the multi-store record once every selected store was queried
MultiRecord(stores, q) ==
    IF q.raised THEN Failed(q.exc, q.calls, q.answers)
    ELSE Built(WithLowest(FillUnselected(q.record, stores, StoreKeys), q.store_prices),
               q.calls, q.answers)

Reverse(q) == [i \in 1..Len(q) |-> q[Len(q) + 1 - i]]

\* faulty variant: the loop runs over the selected stores from the last to the first
MultiStore_reversed(card_name, stores, upstreams) ==
    MultiRecord(stores,
                QueryStores([raised |-> FALSE, exc |-> "",
                             record |-> NewRecord(card_name),
                             store_prices |-> <<>>, calls |-> <<>>, answers |-> <<>>],
                            card_name, Reverse(stores), Reverse(upstreams)))

MultiStore(card_name, stores, upstreams) ==
    MultiRecord(stores,
                QueryStores([raised |-> FALSE, exc |-> "",
                             record |-> NewRecord(card_name),
                             store_prices |-> <<>>, calls |-> <<>>, answers |-> <<>>],
                            card_name, stores, upstreams))

\* the record of one card: single-store mode for a selection of length one
BuildRecord(e, card_name, stores, upstreams) ==
    IF Len(stores) = 1
    THEN SingleStore(e, card_name, stores[1], upstreams[1])
    ELSE MultiStore(card_name, stores, upstreams)

ErrorRecord(e, card_name, exc) ==
    [NewRecord(card_name) EXCEPT
       !.price = [s \in StoreKeys |-> NA],
       !.availability = [s \in StoreKeys |-> "n/a"],
       !.lowest_price = NA,
       !.lowest_price_store = "n/a",
       !.error = IF e = "local" THEN exc ELSE NoErrorKey]

NewStats(stores) == [k \in Range(stores) |-> [available |-> 0, total_price |-> 0]]

\* the statistics loop over the selected stores; total_price += price raises
\* TypeError on a price that is not a number, after available was incremented
RECURSIVE UpdateStats(_, _, _)
UpdateStats(st, record, stores) ==
    IF stores = <<>> THEN st
    ELSE LET k == Head(stores)
             price == Get(record.price, k, NA)
             availability == Get(record.availability, k, "n/a")
         IN IF price # NA /\ availability = "Available"
            THEN IF IsNumber(price)
                 THEN UpdateStats(
                        [st EXCEPT !.store_stats[k].available = @ + 1,
                                   !.store_stats[k].total_price = @ + price.n],
                        record, Tail(stores))
                 ELSE [st EXCEPT !.raised = TRUE, !.exc = "TypeError",
                                 !.store_stats[k].available = @ + 1]
            ELSE UpdateStats(st, record, Tail(stores))

\* whether the record's lowest price is added to overall_lowest_total
LowestCounts(e, lowest_price) ==
    IF e = "api" THEN lowest_price # NA ELSE IsNumber(lowest_price)

CardOutcome(rs, stats, total, built, exc, at) ==
    [results |-> rs, store_stats |-> stats, overall_lowest_total |-> total,
     calls |-> built.calls, answers |-> built.answers, exc |-> exc, at |-> at]

\* the update of overall_lowest_total, after the statistics loop went through
AfterStats(e, card_name, appended, total, built, st) ==
    IF st.raised
    THEN CardOutcome(Append(appended, ErrorRecord(e, card_name, st.exc)),
                     st.store_stats, total, built, st.exc, "statistics")
    ELSE IF ~LowestCounts(e, built.record.lowest_price)
    THEN CardOutcome(appended, st.store_stats, total, built, "", "")
    ELSE IF IsNumber(built.record.lowest_price)
    THEN CardOutcome(appended, st.store_stats, total + built.record.lowest_price.n,
                     built, "", "")
    ELSE CardOutcome(Append(appended, ErrorRecord(e, card_name, "TypeError")),
                     st.store_stats, total, built, "TypeError", "statistics")

\* the try block from results.append on, and the handler of an exception
AfterBuild(e, card_name, stores, rs, stats, total, built) ==
    IF built.raised
    THEN CardOutcome(Append(rs, ErrorRecord(e, card_name, built.exc)),
                     stats, total, built, built.exc, "record")
    ELSE AfterStats(e, card_name, Append(rs, built.record), total, built,
                    UpdateStats([raised |-> FALSE, exc |-> "", store_stats |-> stats],
                                built.record, stores))

\* one iteration of the for loop over card_names: the try block and its handler
TryCard(e, card_name, stores, upstreams, rs, stats, total) ==
    AfterBuild(e, card_name, stores, rs, stats, total,
               BuildRecord(e, card_name, stores, upstreams))

Summary(names, stores, stats, total) ==
    [total_cards |-> Len(names),
     store_stats |-> [k \in Range(stores) |-> stats[k]],
     overall_lowest_total |-> total]

-----------------------------------------------------------------------------
(* What the stores answer to the queries of a batch *)

InStock(price) == [price |-> price, quantity |-> Num(1)]

\* a search that fails in transport (swallowed) or carries a JSON array (raises)
BadSearches ==
    {[search |-> [kind |-> k, items |-> <<>>], inventory |-> Ok(<<>>)] :
       k \in {"transport_error", "non_object"}}

BatchUpstreams(store_key) ==
    IF store_key \notin StoreKeys THEN BadSearches
    ELSE IF StoreType[store_key] = "conductcommerce"
    THEN BadSearches
         \cup {[search |-> Ok(<<Listing(<<InStock(p)>>)>>), inventory |-> Ok(<<>>)] :
                 p \in {Num(1), Num(2), StrPrice}}
    ELSE BadSearches
         \cup {[search |-> Ok(<<Product(Num(1))>>),
                inventory |-> Ok(<<InventoryItem(Num(1), <<InStock(p)>>)>>)] :
                 p \in {Num(1), Num(2)}}

RECURSIVE UpstreamSeqs(_)
UpstreamSeqs(stores) ==
    IF stores = <<>> THEN {<<>>}
    ELSE {<<u>> \o rest : u \in BatchUpstreams(Head(stores)),
                          rest \in UpstreamSeqs(Tail(stores))}

-----------------------------------------------------------------------------
(* One batch request *)

Init ==
    /\ entry \in Entries
    /\ card_text \in SeqsUpTo(Lines, MaxLines)
    /\ selected_stores \in Selections
    /\ pc = "received"
    /\ card_names = <<>>
    /\ idx = 0
    /\ results = <<>>
    /\ store_stats = <<>>
    /\ overall_lowest_total = 0
    /\ calls = <<>>
    /\ cardlog = <<>>
    /\ response = NoResponse
    /\ CallIdle
    /\ ServerIdle

Reject ==
    /\ pc = "received"
    /\ Validate(card_text, selected_stores) # Accepted
    /\ response' = Validate(card_text, selected_stores)
    /\ pc' = "rejected"
    /\ UNCHANGED <<entry, card_text, selected_stores, card_names, idx, results,
                   store_stats, overall_lowest_total, calls, cardlog>>
    /\ UNCHANGED callVars
    /\ UNCHANGED serverVars

Accept ==
    /\ pc = "received"
    /\ Validate(card_text, selected_stores) = Accepted
    /\ card_names' = ParseCardNames(card_text)
    /\ results' = <<>>
    /\ store_stats' = NewStats(selected_stores)
    /\ overall_lowest_total' = 0
    /\ idx' = 1
    /\ pc' = "cards"
    /\ UNCHANGED <<entry, card_text, selected_stores, calls, cardlog, response>>
    /\ UNCHANGED callVars
    /\ UNCHANGED serverVars

ProcessCard ==
    /\ pc = "cards"
    /\ idx <= Len(card_names)
    /\ \E upstreams \in UpstreamSeqs(selected_stores) :
         LET out == TryCard(entry, card_names[idx], selected_stores, upstreams,
                            results, store_stats, overall_lowest_total)
         IN /\ results' = out.results
            /\ store_stats' = out.store_stats
            /\ overall_lowest_total' = out.overall_lowest_total
            /\ calls' = calls \o out.calls
            /\ cardlog' = Append(cardlog, [card |-> card_names[idx], exc |-> out.exc,
                                           at |-> out.at, answers |-> out.answers,
                                           calls |-> out.calls,
                                           records |-> SubSeq(out.results, Len(results) + 1,
                                                              Len(out.results))])
    /\ idx' = idx + 1
    /\ UNCHANGED <<entry, card_text, selected_stores, pc, card_names, response>>
    /\ UNCHANGED callVars
    /\ UNCHANGED serverVars

Respond ==
    /\ pc = "cards"
    /\ idx > Len(card_names)
    /\ response' = [Accepted EXCEPT
                      !.success = TRUE,
                      !.results = results,
                      !.summary = Summary(card_names, selected_stores, store_stats,
                                          overall_lowest_total),
                      !.selected_stores = selected_stores]
    /\ pc' = "done"
    /\ UNCHANGED <<entry, card_text, selected_stores, card_names, idx, results,
                   store_stats, overall_lowest_total, calls, cardlog>>
    /\ UNCHANGED callVars
    /\ UNCHANGED serverVars

Next ==
    \/ Reject
    \/ Accept
    \/ ProcessCard
    \/ Respond

Spec == Init /\ [][Next]_vars

-----------------------------------------------------------------------------
(* The local server: ThreadingHTTPServer runs every request in a thread of  *)
(* its own; each handler reaches the checker through the property          *)
(* price_checker, which tests, builds, stores and reloads the attribute of  *)
(* the shared server object in separate steps.                              *)

\* how many times one request reads the property: once for GET /api/stores
\* and /api/health, three times at least for POST /api/check-prices
AccessCounts == {1, 3}

ReceiveRequest(t) ==
    /\ thread[t].pc = "idle"
    /\ \E n \in AccessCounts :
         thread' = [thread EXCEPT ![t].pc = "test", ![t].left = n]
    /\ UNCHANGED <<server_price_checker, builds>>
    /\ UNCHANGED batchVars
    /\ UNCHANGED callVars

\* if getattr(self.server, "price_checker", None) is None
TestChecker(t) ==
    /\ thread[t].pc = "test"
    /\ thread' = [thread EXCEPT ![t].pc = IF server_price_checker = NoChecker
                                          THEN "build" ELSE "load"]
    /\ UNCHANGED <<server_price_checker, builds>>
    /\ UNCHANGED batchVars
    /\ UNCHANGED callVars

\* build_price_checker(): a new MTGPriceChecker instance
BuildChecker(t) ==
    /\ thread[t].pc = "build"
    /\ builds' = builds + 1
    /\ thread' = [thread EXCEPT ![t].pc = "store", ![t].fresh = builds + 1]
    /\ UNCHANGED server_price_checker
    /\ UNCHANGED batchVars
    /\ UNCHANGED callVars

\* self.server.price_checker = <the instance built>
StoreChecker(t) ==
    /\ thread[t].pc = "store"
    /\ server_price_checker' = thread[t].fresh
    /\ thread' = [thread EXCEPT ![t].pc = "load"]
    /\ UNCHANGED builds
    /\ UNCHANGED batchVars
    /\ UNCHANGED callVars

\* return self.server.price_checker
LoadChecker(t) ==
    /\ thread[t].pc = "load"
    /\ thread' = [thread EXCEPT
                    ![t].used = @ \cup {server_price_checker},
                    ![t].left = @ - 1,
                    ![t].pc = IF thread[t].left = 1 THEN "done" ELSE "test"]
    /\ UNCHANGED <<server_price_checker, builds>>
    /\ UNCHANGED batchVars
    /\ UNCHANGED callVars

InitServer == BatchIdle /\ CallIdle /\ ServerIdle

NextServer ==
    \E t \in Threads :
      \/ ReceiveRequest(t)
      \/ TestChecker(t)
      \/ BuildChecker(t)
      \/ StoreChecker(t)
      \/ LoadChecker(t)

SpecServer == InitServer /\ [][NextServer]_vars

-----------------------------------------------------------------------------
(* Properties *)

Selected == Range(selected_stores)

AllNA(r) ==
    /\ DOMAIN r.price = StoreKeys
    /\ DOMAIN r.availability = StoreKeys
    /\ \A s \in StoreKeys : r.price[s] = NA /\ r.availability[s] = "n/a"
    /\ r.lowest_price = NA
    /\ r.lowest_price_store = "n/a"

\* C1: in every record of the results, lowest_price is 'n/a' exactly when the
\* price field of every selected store is 'n/a'; otherwise it is the price
\* field of a selected store and the least of the selected stores' numeric
\* prices.
C1_LowestPriceIsMinimum ==
    \A i \in 1..Len(results) :
      LET r == results[i]
      IN /\ (r.lowest_price = NA) <=> (\A s \in Selected : Get(r.price, s, NA) = NA)
         /\ r.lowest_price # NA =>
              /\ \E s \in Selected : Get(r.price, s, NA) = r.lowest_price
              /\ \A s \in Selected :
                   (IsNumber(r.lowest_price) /\ IsNumber(Get(r.price, s, NA))) =>
                     r.lowest_price.n <= r.price[s].n

\* C2: in every record of the results, lowest_price_store is 'n/a' exactly
\* when lowest_price is 'n/a'; otherwise it is a selected store whose price
\* field in that record equals lowest_price.
C2_LowestStoreMatches ==
    \A i \in 1..Len(results) :
      LET r == results[i]
      IN /\ (r.lowest_price_store = "n/a") <=> (r.lowest_price = NA)
         /\ r.lowest_price # NA =>
              /\ r.lowest_price_store \in Selected
              /\ Get(r.price, r.lowest_price_store, NA) = r.lowest_price

IsReducerCall == op \in {"process_tcgplayer_results", "process_conductcommerce_results"}

\* the SKU lists a reducer call has to take into account: the variants of every
\* listing, or the SKUs of the inventory entries of a searched product
ScopeGroups ==
    IF op = "process_conductcommerce_results"
    THEN [l \in 1..Len(arg.listings) |-> arg.listings[l].variants]
    ELSE [i \in 1..Len(arg.inventory_data) |->
            IF \E j \in 1..Len(arg.products) :
                 arg.products[j].id = arg.inventory_data[i].productId
            THEN arg.inventory_data[i].skus ELSE <<>>]

Positions(g) == UNION {{<<i, j>> : j \in 1..Len(g[i])} : i \in DOMAIN g}

HasStock(sku) == sku.quantity.t = "num" /\ sku.quantity.n > 0

InStockPositions(g) == {p \in Positions(g) : HasStock(g[p[1]][p[2]])}

\* the price a SKU is listed at: a missing price field counts as 0
ListedPrice(sku) == IF sku.price.t = "absent" THEN Num(0) ELSE sku.price

RECURSIVE QuantityOver(_, _)
QuantityOver(g, ps) ==
    IF ps = {} THEN 0
    ELSE LET p == CHOOSE x \in ps : TRUE
         IN g[p[1]][p[2]].quantity.n + QuantityOver(g, ps \ {p})

\* C3: the quantity a reducer returns is the sum of the quantities of exactly
\* the variants/SKUs with quantity > 0 (tcgplayer: under inventory entries of a
\* searched product); no other SKU adds to the quantity or supplies the price.
C3_QuantityIsSumOfInStock ==
    (IsReducerCall /\ ~ret.raised) =>
      /\ ret.quantity = QuantityOver(ScopeGroups, InStockPositions(ScopeGroups))
      /\ ret.price # NA =>
           \E p \in InStockPositions(ScopeGroups) :
             ListedPrice(ScopeGroups[p[1]][p[2]]) = ret.price

\* a matched entry in stock beside an unmatched entry in stock
C3_Witness ==
    /\ op = "process_tcgplayer_results"
    /\ arg.products = <<Product(Num(1))>>
    /\ arg.inventory_data =
         <<InventoryItem(Num(1), <<[price |-> Num(2), quantity |-> Num(2)]>>),
           InventoryItem(Num(2), <<[price |-> Num(1), quantity |-> Num(1)]>>)>>
    /\ ret.quantity = 2
    /\ ret.price = Num(2)

\* prices list.sort can order: all numbers, or all strings
Comparable(g, ps) ==
    \A p, q \in ps : ListedPrice(g[p[1]][p[2]]).t = ListedPrice(g[q[1]][q[2]]).t

SearchCameBackEmpty(resp) ==
    \/ resp.kind \in SwallowedKinds
    \/ resp.kind = "ok" /\ resp.items = <<>>

\* C5: for a configured store whose search comes back empty (also after a
\* swallowed transport, HTTP or JSON failure) check_card_prices returns
\* 'n/a', 'n/a', 0 and issues no inventory call.
C5_EmptySearchIsNotAvailable ==
    (/\ op = "check_card_prices"
     /\ arg.store_key \in StoreKeys
     /\ SearchCameBackEmpty(arg.upstream.search)) =>
      /\ ~ret.raised
      /\ ret.availability = "n/a"
      /\ ret.price = NA
      /\ ret.quantity = 0
      /\ \A i \in 1..Len(ret.calls) : ret.calls[i].fn # "inventory"

\* the search fails in transport while the inventory would have had stock
C5_Witness ==
    /\ op = "check_card_prices"
    /\ arg.store_key = "a"
    /\ arg.upstream.search.kind = "transport_error"
    /\ arg.upstream.inventory.kind = "ok"
    /\ arg.upstream.inventory.items # <<>>
    /\ ret.price = NA
    /\ ret.calls = <<Call("search", "a", arg.card_name)>>

Handled == pc # "received"

UnknownSelected == Selected \ StoreKeys

\* C6: a request with non-blank card text whose selection holds a store key
\* that is not configured is rejected with 'Invalid stores' naming every such
\* key, and no search or inventory call is issued for any card.
C6_UnknownStoreRejected ==
    (Handled /\ ~CardTextBlank(card_text) /\ UnknownSelected # {}) =>
      /\ pc = "rejected"
      /\ response.status = 400
      /\ response.error = "Invalid stores"
      /\ response.keys = UnknownSelected
      /\ calls = <<>>
      /\ results = <<>>

\* a configured key beside the unknown one
C6_Witness ==
    /\ pc = "rejected"
    /\ card_text = <<"c1", " c2 ">>
    /\ selected_stores = <<"a", "x">>
    /\ response.keys = {"x"}
    /\ calls = <<>>

\* C7: the request is validated in the order card text, empty selection,
\* unknown store keys, and is rejected with the error of the first check it
\* fails; in a rejected request no card is ever processed.
C7_ValidationOrder ==
    Handled =>
      /\ CardTextBlank(card_text) =>
           pc = "rejected" /\ response.error = "No cards provided"
      /\ (~CardTextBlank(card_text) /\ selected_stores = <<>>) =>
           pc = "rejected" /\ response.error = "No stores selected"
      /\ (~CardTextBlank(card_text) /\ selected_stores # <<>> /\ UnknownSelected # {}) =>
           pc = "rejected" /\ response.error = "Invalid stores"
      /\ pc = "rejected" =>
           /\ response.status = 400
           /\ ~response.success
           /\ cardlog = <<>>
           /\ calls = <<>>
           /\ results = <<>>

\* blank card text together with an unknown store key
C7_Witness ==
    /\ pc = "rejected"
    /\ card_text = <<" ">>
    /\ selected_stores = <<"x">>
    /\ response.error = "No cards provided"

\* C8: the response of an accepted batch holds exactly one record per input
\* card name, in input order, whatever exception the processing of a card
\* raised.
C8_OneRecordPerCard ==
    pc = "done" =>
      /\ Len(response.results) = Len(ParseCardNames(card_text))
      /\ \A i \in 1..Len(response.results) :
           i <= Len(ParseCardNames(card_text)) =>
             response.results[i].card_name = ParseCardNames(card_text)[i]

\* C9: when the processing of a card raised, the record the handler appended
\* for it is 'n/a' in every configured store's price and availability and in
\* lowest_price and lowest_price_store, and carries the exception text as its
\* error annotation, whichever entry point served the request.
C9_ErrorRecordAnnotated ==
    \A k \in 1..Len(cardlog) :
      cardlog[k].exc # "" =>
        LET r == cardlog[k].records[Len(cardlog[k].records)]
        IN AllNA(r) /\ r.error = cardlog[k].exc

\* a store's query for a card failed: it raised, or a swallowed failure made
\* it answer 'n/a'
FailedAnswer(a) == a.raised \/ a.price = NA

\* C10: a failure never aborts the remaining work: every card is processed
\* against the selected stores, the request ends in a success response with
\* results and summary, and the result a selected store gave for a card is
\* reported in that card's record although another store's query failed.
C10_FailureDoesNotAbort ==
    /\ pc = "done" =>
         /\ response.status = 200 /\ response.success
         /\ response.results = results
         /\ response.summary.total_cards = Len(card_names)
         /\ Len(cardlog) = Len(card_names)
         /\ \A k \in 1..Len(cardlog) : cardlog[k].answers # <<>>
    /\ \A k \in 1..Len(cardlog) :
         \A i, j \in 1..Len(cardlog[k].answers) :
           LET good == cardlog[k].answers[i]
               bad == cardlog[k].answers[j]
           IN (good.store # bad.store /\ ~FailedAnswer(good) /\ FailedAnswer(bad)) =>
                \E n \in 1..Len(cardlog[k].records) :
                  Get(cardlog[k].records[n].price, good.store, NA) = good.price

\* the records in which store s is counted: numeric price, availability 'Available'
CountedRecords(rs, s) ==
    {i \in 1..Len(rs) : /\ IsNumber(Get(rs[i].price, s, NA))
                        /\ Get(rs[i].availability, s, "n/a") = "Available"}

RECURSIVE SumPrice(_, _, _)
SumPrice(rs, s, is) ==
    IF is = {} THEN 0
    ELSE LET i == CHOOSE x \in is : TRUE
         IN rs[i].price[s].n + SumPrice(rs, s, is \ {i})

NumericLowest(rs) == {i \in 1..Len(rs) : IsNumber(rs[i].lowest_price)}

RECURSIVE SumLowest(_, _)
SumLowest(rs, is) ==
    IF is = {} THEN 0
    ELSE LET i == CHOOSE x \in is : TRUE
         IN rs[i].lowest_price.n + SumLowest(rs, is \ {i})

\* C11: in the response of an accepted batch, for each selected store the
\* summary's available is the number of returned records in which the store's
\* price is numeric and its availability 'Available', total_price is the sum
\* of the store's price over those records, and overall_lowest_total is the
\* sum of lowest_price over the returned records whose lowest_price is numeric.
C11_SummaryMatchesRecords ==
    pc = "done" =>
      /\ \A s \in Selected :
           /\ response.summary.store_stats[s].available =
                Cardinality(CountedRecords(response.results, s))
           /\ response.summary.store_stats[s].total_price =
                SumPrice(response.results, s, CountedRecords(response.results, s))
      /\ response.summary.overall_lowest_total =
           SumLowest(response.results, NumericLowest(response.results))

\* C12: in every record of an accepted batch each configured store has a price
\* and an availability field, both 'n/a' for a store that is not selected, and
\* every search or inventory call issued goes to a selected store.
C12_UnselectedUntouched ==
    pc \in {"cards", "done"} =>
      /\ \A i \in 1..Len(results) :
           /\ DOMAIN results[i].price = StoreKeys
           /\ DOMAIN results[i].availability = StoreKeys
           /\ \A s \in StoreKeys \ Selected :
                results[i].price[s] = NA /\ results[i].availability[s] = "n/a"
      /\ \A i \in 1..Len(calls) : calls[i].store \in Selected

\* the multi-store path with store b left out of the selection
C12_Witness ==
    /\ pc = "done"
    /\ selected_stores = <<"a", "a">>
    /\ Len(results) = 2
    /\ IsNumber(results[1].price["a"])
    /\ results[1].price["b"] = NA
    /\ results[1].availability["b"] = "n/a"
    /\ cardlog[2].exc = ""
    /\ calls # <<>>

\* the SKUs in stock that carry both a price and a quantity field
FullyListedInStock(g) ==
    {p \in InStockPositions(g) : g[p[1]][p[2]].price # Absent}

\* C13: a variant/SKU whose price field or quantity field is missing is left
\* out by both reducers: it adds nothing to the returned quantity and its
\* defaulted price is never the returned price.
C13_MissingFieldExcluded ==
    (IsReducerCall /\ ~ret.raised) =>
      /\ ret.quantity = QuantityOver(ScopeGroups, FullyListedInStock(ScopeGroups))
      /\ ret.price # NA =>
           \E p \in FullyListedInStock(ScopeGroups) :
             ScopeGroups[p[1]][p[2]].price = ret.price

\* an upstream exchange that failed or carried a body of an unexpected shape
UpstreamFailed(resp) ==
    resp.kind \in SwallowedKinds \cup {"non_object", "null_field", "non_list"}

\* C14: search_cards and get_inventory never raise: after a transport
\* failure, an HTTP error status, a body that is not JSON or JSON of an
\* unexpected shape they return an empty sequence, and check_card_prices
\* returns 'n/a', 'n/a', 0 without raising.
C14_AdapterNeverRaises ==
    (/\ op = "check_card_prices"
     /\ arg.store_key \in StoreKeys
     /\ \/ UpstreamFailed(arg.upstream.search)
        \/ /\ StoreType[arg.store_key] = "tcgplayer_pro"
           /\ arg.upstream.search \in {Ok(p) : p \in ProductSeqs}
           /\ UpstreamFailed(arg.upstream.inventory)) =>
      /\ ~ret.raised
      /\ ret.availability = "n/a"
      /\ ret.price = NA
      /\ ret.quantity = 0

\* the stores searched, in the order of the search calls
RECURSIVE SearchedStores(_)
SearchedStores(cs) ==
    IF cs = <<>> THEN <<>>
    ELSE IF Head(cs).fn = "search"
         THEN <<Head(cs).store>> \o SearchedStores(Tail(cs))
         ELSE SearchedStores(Tail(cs))

RECURSIVE CallsOfCards(_)
CallsOfCards(log) ==
    IF log = <<>> THEN <<>> ELSE Head(log).calls \o CallsOfCards(Tail(log))

\* the calls of the batch are the calls of card 1, then those of card 2, ...;
\* every call made for a card names that card, and an inventory call comes
\* directly after the search call to the same store
CardsInTurn ==
    /\ calls = CallsOfCards(cardlog)
    /\ \A k \in 1..Len(cardlog) :
         \A i \in 1..Len(cardlog[k].calls) :
           /\ cardlog[k].calls[i].card = card_names[k]
           /\ cardlog[k].calls[i].fn = "inventory" =>
                /\ i > 1
                /\ cardlog[k].calls[i - 1].fn = "search"
                /\ cardlog[k].calls[i - 1].store = cardlog[k].calls[i].store

\* the position of a store key in the iteration over the configured stores
ConfigIndex(s) == CHOOSE i \in 1..Len(StoreOrder) : StoreOrder[i] = s

IsPrefix(p, q) == Len(p) <= Len(q) /\ SubSeq(q, 1, Len(p)) = p

VariantGroups(listings) == [l \in 1..Len(listings) |-> listings[l].variants]

CallsTo(fn) == {i \in 1..Len(ret.calls) : ret.calls[i].fn = fn}

\* the search found something: a body with a non-empty item array
SearchFound(resp) == resp.kind = "ok" /\ resp.items # <<>>

\* the inventory request brought nothing: it failed, or its body is not a
\* non-empty array
InventoryCameBackEmpty(resp) == resp.kind # "ok" \/ resp.items = <<>>

\* C16: check_card_prices makes no network call for a store key that is not
\* configured; for a conductcommerce store it makes exactly one search call
\* and no inventory call, and its result is reduced from the listings of the
\* search; for a tcgplayer_pro store it makes one search call, then one
\* inventory call at most and only after a search that found something, and
\* an empty inventory gives 'n/a', 'n/a', 0.
C16_CallProtocol ==
    op = "check_card_prices" =>
      /\ arg.store_key \notin StoreKeys =>
           ret = WithCalls(NotAvailable, <<>>)
      /\ (arg.store_key \in StoreKeys /\ StoreType[arg.store_key] = "conductcommerce") =>
           /\ ret.calls = <<Call("search", arg.store_key, arg.card_name)>>
           /\ (SearchFound(arg.upstream.search) /\ ~ret.raised) =>
                LET g == VariantGroups(arg.upstream.search.items)
                IN /\ ret.quantity = QuantityOver(g, InStockPositions(g))
                   /\ (ret.availability = "Available") <=> (InStockPositions(g) # {})
                   /\ ret.price # NA =>
                        \E p \in InStockPositions(g) : ListedPrice(g[p[1]][p[2]]) = ret.price
      /\ (arg.store_key \in StoreKeys /\ StoreType[arg.store_key] = "tcgplayer_pro") =>
           /\ ret.calls # <<>>
           /\ ret.calls[1] = Call("search", arg.store_key, arg.card_name)
           /\ CallsTo("search") = {1}
           /\ CallsTo("inventory") \subseteq {2}
           /\ \A i \in 1..Len(ret.calls) : ret.calls[i].store = arg.store_key
           /\ CallsTo("inventory") # {} => SearchFound(arg.upstream.search)
           /\ (CallsTo("inventory") # {} /\ InventoryCameBackEmpty(arg.upstream.inventory)) =>
                /\ ~ret.raised
                /\ ret.availability = "n/a"
                /\ ret.price = NA
                /\ ret.quantity = 0

\* the search finds a product and the inventory request fails in transport
C16_Witness ==
    /\ op = "check_card_prices"
    /\ arg.store_key = "a"
    /\ SearchFound(arg.upstream.search)
    /\ arg.upstream.inventory.kind = "transport_error"
    /\ ret.calls = <<Call("search", "a", arg.card_name), Call("inventory", "a", arg.card_name)>>
    /\ ret.price = NA
    /\ ret.quantity = 0

\* C17: in the response of an accepted batch no selected store's available
\* count exceeds total_cards, also when the selection repeats a store key.
C17_AvailableAtMostCards ==
    pc = "done" =>
      \A s \in Selected :
        response.summary.store_stats[s].available <= response.summary.total_cards

\* C18: in the local server build_price_checker runs at most once per server
\* process and every request, on whatever thread, gets the same checker
\* instance from the property.
C18_CheckerBuiltOnce ==
    /\ builds <= 1
    /\ Cardinality(UNION {thread[t].used : t \in Threads}) <= 1

====
